---- MODULE Spec2Model ----
(***************************************************************************)
(* Model of the PTY session registry and the WebSocket <-> PTY bridge of   *)
(* examples/web-agent/rat/src/main.rs.                                     *)
(*                                                                         *)
(* Sessions are identified by the order of their creation (Uuid::new_v4    *)
(* yields a fresh id per create_session call).  Attach attempts            *)
(* (handle_shell_socket invocations) are identified by connection number.  *)
(* Every session object lives behind an Arc: it is dropped, and its        *)
(* PtyPair closed, when it is neither in SESSIONS nor held by a handler.   *)
(***************************************************************************)
EXTENDS Integers, Sequences, FiniteSets, TLC

\* ---- bounds of the model ----
MaxSessions == 2      \* create_session calls explored
MaxConns == 2         \* WebSocket connections explored
MaxEvents == 5        \* HTTP requests, connections, client messages and drops,
                      \* shell writes and exits explored, all together
ChanCap == 1          \* capacity of each mpsc channel; mpsc::channel(100) in the
                      \* source, scaled down so that a full channel is reached
MaxLines == 2         \* chunks (lines) a child writes to each of stdout and stderr

\* ---- program constants ----
BufSize == 8192       \* let mut buf = [0u8; 8192]

Ids == 1..MaxSessions
Conns == 1..MaxConns

\* A WebSocket message: kind and payload (bytes of a Binary message, code
\* points of a Text message).
Msg(k, b) == [kind |-> k, body |-> b]
ClientMsgs ==
    { Msg("Binary", <<1>>), Msg("Text", <<233>>), Msg("Close", <<>>), Msg("Ping", <<>>) }

\* String::into_bytes: the UTF-8 encoding of the text.
Utf8(cp) ==
    IF cp < 128 THEN <<cp>>
    ELSE IF cp < 2048 THEN <<192 + (cp \div 64), 128 + (cp % 64)>>
    ELSE IF cp < 65536
         THEN <<224 + (cp \div 4096), 128 + ((cp \div 64) % 64), 128 + (cp % 64)>>
    ELSE <<240 + (cp \div 262144), 128 + ((cp \div 4096) % 64),
           128 + ((cp \div 64) % 64), 128 + (cp % 64)>>

RECURSIVE IntoBytes(_)
IntoBytes(text) ==
    IF text = <<>> THEN <<>> ELSE Utf8(Head(text)) \o IntoBytes(Tail(text))

VARIABLES
    createPc,      \* per id: progress of its create_session call
    SESSIONS,      \* ids in the registry map
    regLock,       \* holder of the SESSIONS mutex
    sessLock,      \* per id: holder of the session mutex (0 = free)
    master_taken,  \* per id: PtySession.master_taken
    exited,        \* per id: the shell left on its own
    removed,       \* per id: a stop_session call removed the entry
    stopSaw,       \* per id: the bridges that were relaying when it was removed
    stopOK,        \* per id: number of stop_session calls answered "stopped"
    stopAgain,     \* per id: a stop_session call was answered 404 after a "stopped"
    hpc,           \* per connection: position of handle_shell_socket
    sid,           \* per connection: the session id of the request path
    result,        \* per connection: how the attach ended
    rd, rdBuf,     \* PTY reader thread: position, chunk in hand
    wr, wrBuf,     \* PTY writer thread
    rt, rtBuf,     \* read_task (PTY -> WebSocket)
    wt, wtBuf,     \* write_task (WebSocket -> PTY)
    wrErr,         \* per connection: a write to the PTY master has failed
    rdEof,         \* per connection: a read of the PTY master returned Ok(0) or Err
    sendErr,       \* per connection: a send on the WebSocket has failed
    pty_q,         \* channel pty_tx -> pty_rx
    ws_q,          \* channel ws_to_pty_tx -> ws_to_pty_rx
    wsIn,          \* per connection: messages sent by the client, not yet received
    wsRecv,        \* per connection: messages ws_rx.next() has returned
    clientGone,    \* per connection: the client dropped the transport
    wsOut,         \* per connection: payloads of the Binary messages sent
    ptyPending,    \* per id: shell output not yet read from the master
    ptyRead,       \* per id: shell output read from the master so far
    ptyIn,         \* per id: bytes written to the master
    readerClones,  \* per id: number of try_clone_reader calls
    writerTakes,   \* per id: number of take_writer calls
    nOut,          \* shell bytes written so far; the k-th byte written is k
    nEv,           \* requests, client events and shell events so far
    exPc,          \* position of the one execute / execute/stream request explored
    chOut, chErr,  \* the child: lines it has still to write to stdout, to stderr
    chCode,        \* the child: the code it exits with
    chExited,      \* the child has exited (both its pipe ends are closed)
    wroteErr,      \* the child: what it has written to stderr so far
    pipeOut,       \* stdout pipe: lines written and not yet read
    pipeErr,       \* stderr pipe
    capOut, capErr,\* what cmd.output() has collected from each pipe
    events,        \* the events the stream has yielded
    response       \* the CommandResponse (or the 500) returned

stopHist == <<stopOK, stopAgain>>
regVars == <<createPc, SESSIONS, regLock, removed, stopSaw, stopHist>>
sessVars == <<sessLock, master_taken, readerClones, writerTakes>>
hVars == <<hpc, sid, result>>
thrVars == <<rd, rdBuf, wr, wrBuf, rt, rtBuf, wt, wtBuf, wrErr, rdEof, sendErr>>
chanVars == <<pty_q, ws_q>>
wsVars == <<wsIn, wsRecv, clientGone, wsOut>>
ptyVars == <<exited, ptyPending, ptyRead, ptyIn, nOut>>
mainVars == <<regVars, sessVars, hVars, thrVars, chanVars, wsVars, ptyVars, nEv>>
childVars == <<chOut, chErr, chCode, chExited, wroteErr, pipeOut, pipeErr>>
execVars == <<exPc, childVars, capOut, capErr, events, response>>
vars == <<mainVars, execVars>>

Free == <<"free", 0>>

Init ==
    /\ createPc = [s \in Ids |-> "none"]
    /\ SESSIONS = {}
    /\ regLock = Free
    /\ sessLock = [s \in Ids |-> 0]
    /\ master_taken = [s \in Ids |-> FALSE]
    /\ exited = [s \in Ids |-> FALSE]
    /\ removed = [s \in Ids |-> FALSE]
    /\ stopSaw = [s \in Ids |-> {}]
    /\ stopOK = [s \in Ids |-> 0]
    /\ stopAgain = [s \in Ids |-> FALSE]
    /\ hpc = [c \in Conns |-> "idle"]
    /\ sid = [c \in Conns |-> 0]
    /\ result = [c \in Conns |-> "none"]
    /\ rd = [c \in Conns |-> "off"]
    /\ wr = [c \in Conns |-> "off"]
    /\ rt = [c \in Conns |-> "off"]
    /\ wt = [c \in Conns |-> "off"]
    /\ rdBuf = [c \in Conns |-> <<>>]
    /\ wrBuf = [c \in Conns |-> <<>>]
    /\ rtBuf = [c \in Conns |-> <<>>]
    /\ wtBuf = [c \in Conns |-> <<>>]
    /\ wrErr = [c \in Conns |-> FALSE]
    /\ rdEof = [c \in Conns |-> FALSE]
    /\ sendErr = [c \in Conns |-> FALSE]
    /\ pty_q = [c \in Conns |-> <<>>]
    /\ ws_q = [c \in Conns |-> <<>>]
    /\ wsIn = [c \in Conns |-> <<>>]
    /\ wsRecv = [c \in Conns |-> <<>>]
    /\ clientGone = [c \in Conns |-> FALSE]
    /\ wsOut = [c \in Conns |-> <<>>]
    /\ ptyPending = [s \in Ids |-> <<>>]
    /\ ptyRead = [s \in Ids |-> <<>>]
    /\ ptyIn = [s \in Ids |-> <<>>]
    /\ readerClones = [s \in Ids |-> 0]
    /\ writerTakes = [s \in Ids |-> 0]
    /\ nOut = 0
    /\ nEv = 0
    /\ exPc = "idle"
    /\ chOut = <<>>
    /\ chErr = <<>>
    /\ chCode = 0
    /\ chExited = FALSE
    /\ wroteErr = <<>>
    /\ pipeOut = <<>>
    /\ pipeErr = <<>>
    /\ capOut = <<>>
    /\ capErr = <<>>
    /\ events = <<>>
    /\ response = <<>>

\* ---- ownership of the OS resources ----

\* The handler holds its clone of the session Arc from the lookup to its return.
HoldsArc(c) == hpc[c] \in {"found", "claim", "relay"}

\* The PtySession (and its PtyPair: master and slave descriptor) is alive while
\* create_session still owns it, the registry holds it or a handler holds a clone.
PairOpen(s) ==
    \/ createPc[s] \in {"opened", "spawned", "locked"}
    \/ s \in SESSIONS
    \/ \E c \in Conns : sid[c] = s /\ HoldsArc(c)

\* The cloned reader lives in the PTY reader thread, the taken writer in the
\* PTY writer thread; each is dropped when its thread returns.
ReaderOpen(c) == rd[c] \in {"read", "send"}
WriterOpen(c) == wr[c] \in {"recv", "write"}

MasterOpen(s) ==
    \/ PairOpen(s)
    \/ \E c \in Conns : sid[c] = s /\ (ReaderOpen(c) \/ WriterOpen(c))

Spawned(s) == createPc[s] \in {"spawned", "locked", "done"}

\* The shell runs from its spawn until it leaves on its own or the last
\* descriptor of the master side is closed (the kernel hangs the terminal up).
ShellRunning(s) == Spawned(s) /\ ~exited[s] /\ MasterOpen(s)

\* ---- create_session ----

\* openpty: the session id is generated first (ids are used in order), then the
\* PTY is allocated; a failure is answered 500 "Failed to create PTY".
CreateOpenPty(s) ==
    /\ nEv < MaxEvents
    /\ nEv' = nEv + 1
    /\ createPc[s] = "none"
    /\ \A p \in Ids : p < s => createPc[p] # "none"
    /\ \E ok \in BOOLEAN :
        createPc' = [createPc EXCEPT ![s] = IF ok THEN "opened" ELSE "failed_pty"]
    /\ UNCHANGED <<SESSIONS, regLock, removed, stopSaw, stopHist, sessVars, hVars, thrVars,
                   chanVars, wsVars, ptyVars>>
    /\ UNCHANGED execVars

\* create_session with the session stored before the shell is spawned: a
\* failed spawn leaves the entry behind.
CreateSpawnStoredFirst(s) ==
    /\ createPc[s] = "opened"
    /\ \E ok \in BOOLEAN :
        /\ createPc' = [createPc EXCEPT ![s] = IF ok THEN "spawned" ELSE "failed_spawn"]
        /\ SESSIONS' = IF ok THEN SESSIONS ELSE SESSIONS \cup {s}
    /\ UNCHANGED <<regLock, removed, stopSaw, stopHist, sessVars, hVars, thrVars,
                   chanVars, wsVars, ptyVars, nEv>>
    /\ UNCHANGED execVars

\* pty_pair.slave.spawn_command(cmd): on failure pty_pair is dropped by `?` and
\* 500 "Failed to spawn shell" is answered.
CreateSpawn(s) ==
    /\ createPc[s] = "opened"
    /\ \E ok \in BOOLEAN :
        createPc' = [createPc EXCEPT ![s] = IF ok THEN "spawned" ELSE "failed_spawn"]
    /\ UNCHANGED <<SESSIONS, regLock, removed, stopSaw, stopHist, sessVars, hVars, thrVars,
                   chanVars, wsVars, ptyVars, nEv>>
    /\ UNCHANGED execVars

\* SESSIONS.lock().unwrap()
CreateLock(s) ==
    /\ createPc[s] = "spawned"
    /\ regLock = Free
    /\ regLock' = <<"create", s>>
    /\ createPc' = [createPc EXCEPT ![s] = "locked"]
    /\ UNCHANGED <<SESSIONS, removed, stopSaw, stopHist, sessVars, hVars, thrVars, chanVars,
                   wsVars, ptyVars, nEv>>
    /\ UNCHANGED execVars

\* .insert(session_id, Arc::new(Mutex::new(session))); the guard is a temporary.
CreateInsert(s) ==
    /\ regLock = <<"create", s>>
    /\ SESSIONS' = SESSIONS \cup {s}
    /\ regLock' = Free
    /\ createPc' = [createPc EXCEPT ![s] = "done"]
    /\ UNCHANGED <<removed, stopSaw, stopHist, sessVars, hVars, thrVars, chanVars, wsVars,
                   ptyVars, nEv>>
    /\ UNCHANGED execVars

\* ---- list_sessions ----

ListLock ==
    /\ nEv < MaxEvents
    /\ nEv' = nEv + 1
    /\ regLock = Free
    /\ regLock' = <<"list", 0>>
    /\ UNCHANGED <<createPc, SESSIONS, removed, stopSaw, stopHist, sessVars, hVars, thrVars,
                   chanVars, wsVars, ptyVars>>
    /\ UNCHANGED execVars

\* sessions.keys() collected; the guard is dropped at the return.
ListRead ==
    /\ regLock = <<"list", 0>>
    /\ regLock' = Free
    /\ UNCHANGED <<createPc, SESSIONS, removed, stopSaw, stopHist, sessVars, hVars, thrVars,
                   chanVars, wsVars, ptyVars, nEv>>
    /\ UNCHANGED execVars

\* ---- stop_session ----

StopLock(s) ==
    /\ nEv < MaxEvents
    /\ nEv' = nEv + 1
    /\ regLock = Free
    /\ regLock' = <<"stop", s>>
    /\ UNCHANGED <<createPc, SESSIONS, removed, stopSaw, stopHist, sessVars, hVars, thrVars,
                   chanVars, wsVars, ptyVars>>
    /\ UNCHANGED execVars

\* stop_session testing the entry with get in place of remove.
StopRemoveKeeps(s) ==
    /\ regLock = <<"stop", s>>
    /\ SESSIONS' = SESSIONS
    /\ removed' = [removed EXCEPT ![s] = removed[s] \/ s \in SESSIONS]
    /\ stopSaw' = [stopSaw EXCEPT ![s] =
                      IF s \in SESSIONS
                      THEN {c \in Conns : sid[c] = s /\ hpc[c] = "relay"}
                      ELSE @]
    /\ stopOK' = [stopOK EXCEPT ![s] = IF s \in SESSIONS THEN @ + 1 ELSE @]
    /\ stopAgain' = [stopAgain EXCEPT ![s] = @ \/ (s \notin SESSIONS /\ stopOK[s] > 0)]
    /\ regLock' = Free
    /\ UNCHANGED <<createPc, sessVars, hVars, thrVars, chanVars, wsVars, ptyVars, nEv>>
    /\ UNCHANGED execVars

\* stop_session emptying the whole map when it finds the entry.
StopRemoveClears(s) ==
    /\ regLock = <<"stop", s>>
    /\ SESSIONS' = IF s \in SESSIONS THEN {} ELSE SESSIONS
    /\ removed' = [removed EXCEPT ![s] = removed[s] \/ s \in SESSIONS]
    /\ stopSaw' = [stopSaw EXCEPT ![s] =
                      IF s \in SESSIONS
                      THEN {c \in Conns : sid[c] = s /\ hpc[c] = "relay"}
                      ELSE @]
    /\ stopOK' = [stopOK EXCEPT ![s] = IF s \in SESSIONS THEN @ + 1 ELSE @]
    /\ stopAgain' = [stopAgain EXCEPT ![s] = @ \/ (s \notin SESSIONS /\ stopOK[s] > 0)]
    /\ regLock' = Free
    /\ UNCHANGED <<createPc, sessVars, hVars, thrVars, chanVars, wsVars, ptyVars, nEv>>
    /\ UNCHANGED execVars

\* sessions.remove(&session_id).is_some(): the removed Arc is dropped at once,
\* nothing else is done to the session, its shell or its bridge.
StopRemove(s) ==
    /\ regLock = <<"stop", s>>
    /\ SESSIONS' = SESSIONS \ {s}
    /\ removed' = [removed EXCEPT ![s] = removed[s] \/ s \in SESSIONS]
    /\ stopSaw' = [stopSaw EXCEPT ![s] =
                      IF s \in SESSIONS
                      THEN {c \in Conns : sid[c] = s /\ hpc[c] = "relay"}
                      ELSE @]
    /\ stopOK' = [stopOK EXCEPT ![s] = IF s \in SESSIONS THEN @ + 1 ELSE @]
    /\ stopAgain' = [stopAgain EXCEPT ![s] = @ \/ (s \notin SESSIONS /\ stopOK[s] > 0)]
    /\ regLock' = Free
    /\ UNCHANGED <<createPc, sessVars, hVars, thrVars, chanVars, wsVars, ptyVars, nEv>>
    /\ UNCHANGED execVars

\* ---- handle_shell_socket: lookup and claim ----

\* A client connects to /shell/<s>; s may be any id, created or not.
Attach(c, s) ==
    /\ nEv < MaxEvents
    /\ nEv' = nEv + 1
    /\ hpc[c] = "idle"
    /\ \A d \in Conns : d < c => hpc[d] # "idle"
    /\ hpc' = [hpc EXCEPT ![c] = "start"]
    /\ sid' = [sid EXCEPT ![c] = s]
    /\ UNCHANGED <<result, regVars, sessVars, thrVars, chanVars, wsVars, ptyVars>>
    /\ UNCHANGED execVars

\* let sessions = SESSIONS.lock().unwrap();
LookupLock(c) ==
    /\ hpc[c] = "start"
    /\ regLock = Free
    /\ regLock' = <<"attach", c>>
    /\ hpc' = [hpc EXCEPT ![c] = "lookup"]
    /\ UNCHANGED <<createPc, SESSIONS, removed, stopSaw, stopHist, sid, result, sessVars,
                   thrVars, chanVars, wsVars, ptyVars, nEv>>
    /\ UNCHANGED execVars

\* The lookup without its inner block: the registry guard lives on when the
\* session was found, and the handler goes on to the session lock with it.
LookupKeepsLock(c) ==
    /\ hpc[c] = "lookup"
    /\ IF sid[c] \in SESSIONS
       THEN /\ hpc' = [hpc EXCEPT ![c] = "found"]
            /\ UNCHANGED <<result, regLock>>
       ELSE /\ hpc' = [hpc EXCEPT ![c] = "done"]
            /\ result' = [result EXCEPT ![c] = "NotFound"]
            /\ regLock' = Free
    /\ UNCHANGED <<createPc, SESSIONS, removed, stopSaw, stopHist, sid, sessVars, thrVars,
                   chanVars, wsVars, ptyVars, nEv>>
    /\ UNCHANGED execVars

\* sessions.get(&session_id).cloned(); None => return.
Lookup(c) ==
    /\ hpc[c] = "lookup"
    /\ regLock' = Free
    /\ IF sid[c] \in SESSIONS
       THEN /\ hpc' = [hpc EXCEPT ![c] = "found"]
            /\ UNCHANGED result
       ELSE /\ hpc' = [hpc EXCEPT ![c] = "done"]
            /\ result' = [result EXCEPT ![c] = "NotFound"]
    /\ UNCHANGED <<createPc, SESSIONS, removed, stopSaw, stopHist, sid, sessVars, thrVars,
                   chanVars, wsVars, ptyVars, nEv>>
    /\ UNCHANGED execVars

\* let mut session_lock = session.lock().unwrap();
ClaimLock(c) ==
    /\ hpc[c] = "found"
    /\ sessLock[sid[c]] = 0
    /\ sessLock' = [sessLock EXCEPT ![sid[c]] = c]
    /\ hpc' = [hpc EXCEPT ![c] = "claim"]
    /\ UNCHANGED <<master_taken, readerClones, writerTakes, sid, result, regVars,
                   thrVars, chanVars, wsVars, ptyVars, nEv>>
    /\ UNCHANGED execVars

\* Claim without the test of master_taken: every attempt takes the endpoints.
ClaimNoCheck(c) ==
    /\ hpc[c] = "claim"
    /\ sessLock' = [sessLock EXCEPT ![sid[c]] = 0]
    /\ master_taken' = [master_taken EXCEPT ![sid[c]] = TRUE]
    /\ readerClones' = [readerClones EXCEPT ![sid[c]] = @ + 1]
    /\ writerTakes' = [writerTakes EXCEPT ![sid[c]] = @ + 1]
    /\ hpc' = [hpc EXCEPT ![c] = "relay"]
    /\ rd' = [rd EXCEPT ![c] = "read"]
    /\ wr' = [wr EXCEPT ![c] = "recv"]
    /\ rt' = [rt EXCEPT ![c] = "recv"]
    /\ wt' = [wt EXCEPT ![c] = "next"]
    /\ UNCHANGED <<result, rdBuf, wrBuf, rtBuf, wtBuf, wrErr, rdEof, sendErr>>
    /\ UNCHANGED <<sid, regVars, chanVars, wsVars, ptyVars, nEv>>
    /\ UNCHANGED execVars

\* Claim with try_clone_reader called before the test of master_taken.
ClaimCloneFirst(c) ==
    /\ hpc[c] = "claim"
    /\ sessLock' = [sessLock EXCEPT ![sid[c]] = 0]
    /\ IF master_taken[sid[c]]
       THEN /\ hpc' = [hpc EXCEPT ![c] = "done"]
            /\ result' = [result EXCEPT ![c] = "AlreadyClaimed"]
            /\ readerClones' = [readerClones EXCEPT ![sid[c]] = @ + 1]
            /\ UNCHANGED <<master_taken, writerTakes, thrVars>>
       ELSE /\ master_taken' = [master_taken EXCEPT ![sid[c]] = TRUE]
            /\ readerClones' = [readerClones EXCEPT ![sid[c]] = @ + 1]
            /\ writerTakes' = [writerTakes EXCEPT ![sid[c]] = @ + 1]
            /\ hpc' = [hpc EXCEPT ![c] = "relay"]
            /\ rd' = [rd EXCEPT ![c] = "read"]
            /\ wr' = [wr EXCEPT ![c] = "recv"]
            /\ rt' = [rt EXCEPT ![c] = "recv"]
            /\ wt' = [wt EXCEPT ![c] = "next"]
            /\ UNCHANGED <<result, rdBuf, wrBuf, rtBuf, wtBuf, wrErr, rdEof, sendErr>>
    /\ UNCHANGED <<sid, regVars, chanVars, wsVars, ptyVars, nEv>>
    /\ UNCHANGED execVars

\* Claim without the inner block: the session guard lives on while the bridge
\* of the attempt relays.
ClaimKeepsLock(c) ==
    /\ hpc[c] = "claim"
    /\ IF master_taken[sid[c]]
       THEN /\ hpc' = [hpc EXCEPT ![c] = "done"]
            /\ result' = [result EXCEPT ![c] = "AlreadyClaimed"]
            /\ sessLock' = [sessLock EXCEPT ![sid[c]] = 0]
            /\ UNCHANGED <<master_taken, readerClones, writerTakes, thrVars>>
       ELSE /\ master_taken' = [master_taken EXCEPT ![sid[c]] = TRUE]
            /\ readerClones' = [readerClones EXCEPT ![sid[c]] = @ + 1]
            /\ writerTakes' = [writerTakes EXCEPT ![sid[c]] = @ + 1]
            /\ hpc' = [hpc EXCEPT ![c] = "relay"]
            /\ rd' = [rd EXCEPT ![c] = "read"]
            /\ wr' = [wr EXCEPT ![c] = "recv"]
            /\ rt' = [rt EXCEPT ![c] = "recv"]
            /\ wt' = [wt EXCEPT ![c] = "next"]
            /\ UNCHANGED <<sessLock, result, rdBuf, wrBuf, rtBuf, wtBuf, wrErr, rdEof, sendErr>>
    /\ UNCHANGED <<sid, regVars, chanVars, wsVars, ptyVars, nEv>>
    /\ UNCHANGED execVars

\* The check-and-set of master_taken under the session lock, then (lock dropped)
\* the two channels, the two threads and the two tasks are created.
Claim(c) ==
    /\ hpc[c] = "claim"
    /\ sessLock' = [sessLock EXCEPT ![sid[c]] = 0]
    /\ IF master_taken[sid[c]]
       THEN /\ hpc' = [hpc EXCEPT ![c] = "done"]
            /\ result' = [result EXCEPT ![c] = "AlreadyClaimed"]
            /\ UNCHANGED <<master_taken, readerClones, writerTakes, thrVars>>
       ELSE /\ master_taken' = [master_taken EXCEPT ![sid[c]] = TRUE]
            /\ readerClones' = [readerClones EXCEPT ![sid[c]] = @ + 1]
            /\ writerTakes' = [writerTakes EXCEPT ![sid[c]] = @ + 1]
            /\ hpc' = [hpc EXCEPT ![c] = "relay"]
            /\ rd' = [rd EXCEPT ![c] = "read"]
            /\ wr' = [wr EXCEPT ![c] = "recv"]
            /\ rt' = [rt EXCEPT ![c] = "recv"]
            /\ wt' = [wt EXCEPT ![c] = "next"]
            /\ UNCHANGED <<result, rdBuf, wrBuf, rtBuf, wtBuf, wrErr, rdEof, sendErr>>
    /\ UNCHANGED <<sid, regVars, chanVars, wsVars, ptyVars, nEv>>
    /\ UNCHANGED execVars

\* The handler clearing master_taken when its bridge has ended.
JoinReleases(c) ==
    /\ hpc[c] = "relay"
    /\ rt[c] = "done"
    /\ wt[c] = "done"
    /\ hpc' = [hpc EXCEPT ![c] = "done"]
    /\ result' = [result EXCEPT ![c] = "Relayed"]
    /\ master_taken' = [master_taken EXCEPT ![sid[c]] = FALSE]
    /\ UNCHANGED <<sid, regVars, sessLock, readerClones, writerTakes, thrVars,
                   chanVars, wsVars, ptyVars, nEv>>
    /\ UNCHANGED execVars

\* The handler evicting its session from the registry when its bridge ends.
JoinEvicts(c) ==
    /\ hpc[c] = "relay"
    /\ rt[c] = "done"
    /\ wt[c] = "done"
    /\ hpc' = [hpc EXCEPT ![c] = "done"]
    /\ result' = [result EXCEPT ![c] = "Relayed"]
    /\ SESSIONS' = SESSIONS \ {sid[c]}
    /\ UNCHANGED <<sid, createPc, regLock, removed, stopSaw, stopHist, sessVars, thrVars,
                   chanVars, wsVars, ptyVars, nEv>>
    /\ UNCHANGED execVars

\* tokio::join!(read_task, write_task) completes; the handler returns and drops
\* its clone of the session Arc.
Join(c) ==
    /\ hpc[c] = "relay"
    /\ rt[c] = "done"
    /\ wt[c] = "done"
    /\ hpc' = [hpc EXCEPT ![c] = "done"]
    /\ result' = [result EXCEPT ![c] = "Relayed"]
    /\ UNCHANGED <<sid, regVars, sessVars, thrVars, chanVars, wsVars, ptyVars, nEv>>
    /\ UNCHANGED execVars

\* ---- the bridge: two threads, two tasks, two channels ----

Min(a, b) == IF a < b THEN a ELSE b

\* pty_reader.read(&mut buf) returns Ok(n), n > 0: any non-empty prefix of the
\* pending output that fits the buffer.
PtyReadData(c) ==
    /\ rd[c] = "read"
    /\ ptyPending[sid[c]] # <<>>
    /\ \E n \in 1..Min(Len(ptyPending[sid[c]]), BufSize) :
        /\ rdBuf' = [rdBuf EXCEPT ![c] = SubSeq(ptyPending[sid[c]], 1, n)]
        /\ ptyRead' = [ptyRead EXCEPT ![sid[c]] = @ \o SubSeq(ptyPending[sid[c]], 1, n)]
        /\ ptyPending' = [ptyPending EXCEPT ![sid[c]] =
                            SubSeq(@, n + 1, Len(ptyPending[sid[c]]))]
    /\ rd' = [rd EXCEPT ![c] = "send"]
    /\ UNCHANGED <<regVars, sessVars, hVars, wr, wrBuf, rt, rtBuf, wt, wtBuf, chanVars,
                   wsVars, exited, ptyIn, nOut, nEv, wrErr, rdEof, sendErr>>
    /\ UNCHANGED execVars

\* read returns Ok(0) or Err: the shell is gone and its output is drained.
\* The thread returns, dropping pty_reader and pty_tx.
PtyReadEof(c) ==
    /\ rd[c] = "read"
    /\ ptyPending[sid[c]] = <<>>
    /\ ~ShellRunning(sid[c])
    /\ rd' = [rd EXCEPT ![c] = "done"]
    /\ rdEof' = [rdEof EXCEPT ![c] = TRUE]
    /\ UNCHANGED <<regVars, sessVars, hVars, rdBuf, wr, wrBuf, rt, rtBuf, wt, wtBuf,
                   chanVars, wsVars, ptyVars, nEv, wrErr, sendErr>>
    /\ UNCHANGED execVars

\* The reader thread with try_send in place of blocking_send: a chunk that
\* finds the channel full is dropped.
RdSendDrop(c) ==
    /\ rd[c] = "send"
    /\ IF rt[c] = "done"
       THEN /\ rd' = [rd EXCEPT ![c] = "done"]
            /\ UNCHANGED pty_q
       ELSE /\ pty_q' = [pty_q EXCEPT ![c] =
                          IF Len(@) < ChanCap THEN Append(@, rdBuf[c]) ELSE @]
            /\ rd' = [rd EXCEPT ![c] = "read"]
    /\ rdBuf' = [rdBuf EXCEPT ![c] = <<>>]
    /\ UNCHANGED <<regVars, sessVars, hVars, wr, wrBuf, rt, rtBuf, wt, wtBuf, ws_q,
                   wsVars, ptyVars, nEv, wrErr, rdEof, sendErr>>
    /\ UNCHANGED execVars

\* pty_tx.blocking_send(data): waits while the channel is full, fails once
\* pty_rx is dropped (read_task has ended).
RdSend(c) ==
    /\ rd[c] = "send"
    /\ IF rt[c] = "done"
       THEN /\ rd' = [rd EXCEPT ![c] = "done"]
            /\ UNCHANGED pty_q
       ELSE /\ Len(pty_q[c]) < ChanCap
            /\ pty_q' = [pty_q EXCEPT ![c] = Append(@, rdBuf[c])]
            /\ rd' = [rd EXCEPT ![c] = "read"]
    /\ rdBuf' = [rdBuf EXCEPT ![c] = <<>>]
    /\ UNCHANGED <<regVars, sessVars, hVars, wr, wrBuf, rt, rtBuf, wt, wtBuf, ws_q,
                   wsVars, ptyVars, nEv, wrErr, rdEof, sendErr>>
    /\ UNCHANGED execVars

\* The writer thread ending as soon as write_task has ended, with whatever is
\* still queued thrown away.
WrRecvStopsEarly(c) ==
    /\ wr[c] = "recv"
    /\ IF wt[c] = "done"
       THEN /\ wr' = [wr EXCEPT ![c] = "done"]
            /\ ws_q' = [ws_q EXCEPT ![c] = <<>>]
            /\ UNCHANGED wrBuf
       ELSE /\ ws_q[c] # <<>>
            /\ wrBuf' = [wrBuf EXCEPT ![c] = Head(ws_q[c])]
            /\ ws_q' = [ws_q EXCEPT ![c] = Tail(@)]
            /\ wr' = [wr EXCEPT ![c] = "write"]
    /\ UNCHANGED <<regVars, sessVars, hVars, rd, rdBuf, rt, rtBuf, wt, wtBuf, pty_q,
                   wsVars, ptyVars, nEv, wrErr, rdEof, sendErr>>
    /\ UNCHANGED execVars

\* ws_to_pty_rx.blocking_recv(): Some(data) while chunks are queued, None once
\* the queue is empty and ws_to_pty_tx is dropped (write_task has ended).
WrRecv(c) ==
    /\ wr[c] = "recv"
    /\ IF ws_q[c] # <<>>
       THEN /\ wrBuf' = [wrBuf EXCEPT ![c] = Head(ws_q[c])]
            /\ ws_q' = [ws_q EXCEPT ![c] = Tail(@)]
            /\ wr' = [wr EXCEPT ![c] = "write"]
       ELSE /\ wt[c] = "done"
            /\ wr' = [wr EXCEPT ![c] = "done"]
            /\ UNCHANGED <<wrBuf, ws_q>>
    /\ UNCHANGED <<regVars, sessVars, hVars, rd, rdBuf, rt, rtBuf, wt, wtBuf, pty_q,
                   wsVars, ptyVars, nEv, wrErr, rdEof, sendErr>>
    /\ UNCHANGED execVars

\* pty_master.write_all(&data) and flush() succeed.
PtyWrite(c) ==
    /\ wr[c] = "write"
    /\ ptyIn' = [ptyIn EXCEPT ![sid[c]] = @ \o wrBuf[c]]
    /\ wrBuf' = [wrBuf EXCEPT ![c] = <<>>]
    /\ wr' = [wr EXCEPT ![c] = "recv"]
    /\ UNCHANGED <<regVars, sessVars, hVars, rd, rdBuf, rt, rtBuf, wt, wtBuf, chanVars,
                   wsVars, exited, ptyPending, ptyRead, nOut, nEv, wrErr, rdEof, sendErr>>
    /\ UNCHANGED execVars

\* The writer thread trying again after a failed write: it keeps the rest of
\* the chunk and stays in its loop.
PtyWriteErrRetry(c) ==
    /\ wr[c] = "write"
    /\ ~ShellRunning(sid[c])
    /\ \E n \in 0..(Len(wrBuf[c]) - 1) :
        /\ ptyIn' = [ptyIn EXCEPT ![sid[c]] = @ \o SubSeq(wrBuf[c], 1, n)]
        /\ wrBuf' = [wrBuf EXCEPT ![c] = SubSeq(@, n + 1, Len(@))]
    /\ wrErr' = [wrErr EXCEPT ![c] = TRUE]
    /\ UNCHANGED <<regVars, sessVars, hVars, rd, rdBuf, wr, rt, rtBuf, wt, wtBuf, chanVars,
                   wsVars, exited, ptyPending, ptyRead, nOut, nEv, rdEof, sendErr>>
    /\ UNCHANGED execVars

\* write_all fails after part of the chunk (the shell is gone): the thread
\* returns, dropping pty_master and ws_to_pty_rx with what is still queued.
PtyWriteErr(c) ==
    /\ wr[c] = "write"
    /\ ~ShellRunning(sid[c])
    /\ \E n \in 0..(Len(wrBuf[c]) - 1) :
        ptyIn' = [ptyIn EXCEPT ![sid[c]] = @ \o SubSeq(wrBuf[c], 1, n)]
    /\ wrBuf' = [wrBuf EXCEPT ![c] = <<>>]
    /\ ws_q' = [ws_q EXCEPT ![c] = <<>>]
    /\ wr' = [wr EXCEPT ![c] = "done"]
    /\ wrErr' = [wrErr EXCEPT ![c] = TRUE]
    /\ UNCHANGED <<regVars, sessVars, hVars, rd, rdBuf, rt, rtBuf, wt, wtBuf, pty_q,
                   wsVars, exited, ptyPending, ptyRead, nOut, nEv, rdEof, sendErr>>
    /\ UNCHANGED execVars

\* pty_rx.recv().await: Some(data) while chunks are queued, None once the queue
\* is empty and pty_tx is dropped (the reader thread has returned).
RtRecv(c) ==
    /\ rt[c] = "recv"
    /\ IF pty_q[c] # <<>>
       THEN /\ rtBuf' = [rtBuf EXCEPT ![c] = Head(pty_q[c])]
            /\ pty_q' = [pty_q EXCEPT ![c] = Tail(@)]
            /\ rt' = [rt EXCEPT ![c] = "send"]
       ELSE /\ rd[c] = "done"
            /\ rt' = [rt EXCEPT ![c] = "done"]
            /\ UNCHANGED <<rtBuf, pty_q>>
    /\ UNCHANGED <<regVars, sessVars, hVars, rd, rdBuf, wr, wrBuf, wt, wtBuf, ws_q,
                   wsVars, ptyVars, nEv, wrErr, rdEof, sendErr>>
    /\ UNCHANGED execVars

\* The transport carries data until the client drops it or a Close frame has
\* been received from the client.
TransportOpen(c) ==
    /\ ~clientGone[c]
    /\ \A i \in 1..Len(wsRecv[c]) : wsRecv[c][i].kind # "Close"

\* ws_tx.send(Message::Binary(data)).await: on an error the task ends, dropping
\* pty_rx with what is still queued.
RtSend(c) ==
    /\ rt[c] = "send"
    /\ IF TransportOpen(c)
       THEN /\ wsOut' = [wsOut EXCEPT ![c] = Append(@, rtBuf[c])]
            /\ rt' = [rt EXCEPT ![c] = "recv"]
            /\ UNCHANGED pty_q
       ELSE /\ rt' = [rt EXCEPT ![c] = "done"]
            /\ pty_q' = [pty_q EXCEPT ![c] = <<>>]
            /\ UNCHANGED wsOut
    /\ sendErr' = [sendErr EXCEPT ![c] = @ \/ ~TransportOpen(c)]
    /\ rtBuf' = [rtBuf EXCEPT ![c] = <<>>]
    /\ UNCHANGED <<regVars, sessVars, hVars, rd, rdBuf, wr, wrBuf, wt, wtBuf, ws_q,
                   wsIn, wsRecv, clientGone, ptyVars, nEv, wrErr, rdEof>>
    /\ UNCHANGED execVars

\* write_task with Text messages falling into the `_ => {}` arm.
WtNextTextIgnored(c) ==
    /\ wt[c] = "next"
    /\ IF wsIn[c] # <<>>
       THEN /\ wsIn' = [wsIn EXCEPT ![c] = Tail(@)]
            /\ wsRecv' = [wsRecv EXCEPT ![c] = Append(@, Head(wsIn[c]))]
            /\ CASE Head(wsIn[c]).kind = "Binary" ->
                      /\ wtBuf' = [wtBuf EXCEPT ![c] = Head(wsIn[c]).body]
                      /\ wt' = [wt EXCEPT ![c] = "send"]
                 [] Head(wsIn[c]).kind = "Text" ->
                      UNCHANGED <<wt, wtBuf>>
                 [] Head(wsIn[c]).kind = "Close" ->
                      /\ wt' = [wt EXCEPT ![c] = "done"]
                      /\ UNCHANGED wtBuf
                 [] OTHER -> UNCHANGED <<wt, wtBuf>>
       ELSE /\ clientGone[c]
            /\ wt' = [wt EXCEPT ![c] = "done"]
            /\ UNCHANGED <<wsIn, wsRecv, wtBuf>>
    /\ UNCHANGED <<regVars, sessVars, hVars, rd, rdBuf, wr, wrBuf, rt, rtBuf, chanVars,
                   clientGone, wsOut, ptyVars, nEv, wrErr, rdEof, sendErr>>
    /\ UNCHANGED execVars

\* ws_rx.next().await and the match on the message.
WtNext(c) ==
    /\ wt[c] = "next"
    /\ IF wsIn[c] # <<>>
       THEN /\ wsIn' = [wsIn EXCEPT ![c] = Tail(@)]
            /\ wsRecv' = [wsRecv EXCEPT ![c] = Append(@, Head(wsIn[c]))]
            /\ CASE Head(wsIn[c]).kind = "Binary" ->
                      /\ wtBuf' = [wtBuf EXCEPT ![c] = Head(wsIn[c]).body]
                      /\ wt' = [wt EXCEPT ![c] = "send"]
                 [] Head(wsIn[c]).kind = "Text" ->
                      /\ wtBuf' = [wtBuf EXCEPT ![c] = IntoBytes(Head(wsIn[c]).body)]
                      /\ wt' = [wt EXCEPT ![c] = "send"]
                 [] Head(wsIn[c]).kind = "Close" ->
                      /\ wt' = [wt EXCEPT ![c] = "done"]
                      /\ UNCHANGED wtBuf
                 [] OTHER -> UNCHANGED <<wt, wtBuf>>
       ELSE /\ clientGone[c]
            /\ wt' = [wt EXCEPT ![c] = "done"]
            /\ UNCHANGED <<wsIn, wsRecv, wtBuf>>
    /\ UNCHANGED <<regVars, sessVars, hVars, rd, rdBuf, wr, wrBuf, rt, rtBuf, chanVars,
                   clientGone, wsOut, ptyVars, nEv, wrErr, rdEof, sendErr>>
    /\ UNCHANGED execVars

\* write_task with try_send in place of send().await: a chunk that finds the
\* channel full is dropped.
WtSendDrop(c) ==
    /\ wt[c] = "send"
    /\ IF wr[c] = "done"
       THEN /\ wt' = [wt EXCEPT ![c] = "done"]
            /\ UNCHANGED ws_q
       ELSE /\ ws_q' = [ws_q EXCEPT ![c] =
                          IF Len(@) < ChanCap THEN Append(@, wtBuf[c]) ELSE @]
            /\ wt' = [wt EXCEPT ![c] = "next"]
    /\ wtBuf' = [wtBuf EXCEPT ![c] = <<>>]
    /\ UNCHANGED <<regVars, sessVars, hVars, rd, rdBuf, wr, wrBuf, rt, rtBuf, pty_q,
                   wsVars, ptyVars, nEv, wrErr, rdEof, sendErr>>
    /\ UNCHANGED execVars

\* ws_to_pty_tx.send(data).await: waits while the channel is full, fails once
\* ws_to_pty_rx is dropped (the writer thread has returned).
WtSend(c) ==
    /\ wt[c] = "send"
    /\ IF wr[c] = "done"
       THEN /\ wt' = [wt EXCEPT ![c] = "done"]
            /\ UNCHANGED ws_q
       ELSE /\ Len(ws_q[c]) < ChanCap
            /\ ws_q' = [ws_q EXCEPT ![c] = Append(@, wtBuf[c])]
            /\ wt' = [wt EXCEPT ![c] = "next"]
    /\ wtBuf' = [wtBuf EXCEPT ![c] = <<>>]
    /\ UNCHANGED <<regVars, sessVars, hVars, rd, rdBuf, wr, wrBuf, rt, rtBuf, pty_q,
                   wsVars, ptyVars, nEv, wrErr, rdEof, sendErr>>
    /\ UNCHANGED execVars

\* ---- the environment: clients and shells ----

\* A client sends a message.  What it sends before write_task exists waits in
\* the socket until the task polls it, so sends are explored from then on; once
\* the task has ended nothing is received any more.
ClientSend(c, m) ==
    /\ nEv < MaxEvents
    /\ nEv' = nEv + 1
    /\ wt[c] \in {"next", "send"}
    /\ ~clientGone[c]
    /\ \A i \in 1..Len(wsIn[c]) : wsIn[c][i].kind # "Close"
    /\ wsIn' = [wsIn EXCEPT ![c] = Append(@, m)]
    /\ UNCHANGED <<regVars, sessVars, hVars, thrVars, chanVars, wsRecv, clientGone,
                   wsOut, ptyVars>>
    /\ UNCHANGED execVars

ClientDrop(c) ==
    /\ nEv < MaxEvents
    /\ nEv' = nEv + 1
    /\ hpc[c] # "idle"
    /\ ~clientGone[c]
    /\ clientGone' = [clientGone EXCEPT ![c] = TRUE]
    /\ UNCHANGED <<regVars, sessVars, hVars, thrVars, chanVars, wsIn, wsRecv, wsOut,
                   ptyVars>>
    /\ UNCHANGED execVars

\* The bridge never inspects the bytes it relays, so every byte written by a
\* shell is given a value of its own: its number.
ShellWrite(s) ==
    /\ nEv < MaxEvents
    /\ nEv' = nEv + 1
    /\ ShellRunning(s)
    /\ nOut' = nOut + 1
    /\ ptyPending' = [ptyPending EXCEPT ![s] = Append(@, nOut + 1)]
    /\ UNCHANGED <<regVars, sessVars, hVars, thrVars, chanVars, wsVars, exited,
                   ptyRead, ptyIn>>
    /\ UNCHANGED execVars

ShellExit(s) ==
    /\ nEv < MaxEvents
    /\ nEv' = nEv + 1
    /\ ShellRunning(s)
    /\ exited' = [exited EXCEPT ![s] = TRUE]
    /\ UNCHANGED <<regVars, sessVars, hVars, thrVars, chanVars, wsVars, ptyPending,
                   ptyRead, ptyIn, nOut>>
    /\ UNCHANGED execVars

\* ---- specification ----

Registry ==
    \/ \E s \in Ids : CreateOpenPty(s)
    \/ \E s \in Ids : CreateSpawn(s)
    \/ \E s \in Ids : CreateLock(s)
    \/ \E s \in Ids : CreateInsert(s)
    \/ ListLock
    \/ ListRead
    \/ \E s \in Ids : StopLock(s)
    \/ \E s \in Ids : StopRemove(s)

Handler(c) ==
    \/ LookupLock(c)
    \/ Lookup(c)
    \/ ClaimLock(c)
    \/ Claim(c)
    \/ Join(c)

Bridge(c) ==
    \/ PtyReadData(c)
    \/ PtyReadEof(c)
    \/ RdSend(c)
    \/ WrRecv(c)
    \/ PtyWrite(c)
    \/ PtyWriteErr(c)
    \/ RtRecv(c)
    \/ RtSend(c)
    \/ WtNext(c)
    \/ WtSend(c)

Environment ==
    \/ \E c \in Conns, s \in Ids : Attach(c, s)
    \/ \E c \in Conns, m \in ClientMsgs : ClientSend(c, m)
    \/ \E c \in Conns : ClientDrop(c)
    \/ \E s \in Ids : ShellWrite(s)
    \/ \E s \in Ids : ShellExit(s)

Next ==
    \/ Registry
    \/ \E c \in Conns : Handler(c)
    \/ \E c \in Conns : Bridge(c)
    \/ Environment

Spec == Init /\ [][Next]_vars

\* ---- execute and execute/stream ----
\* The two handlers share no state with the session registry; one request is
\* explored, with every child program of the bounds below.

ExitCodes == {0, 1}

\* What a child writes at a time: the line "a", and a line that is not UTF-8.
Lines == {<<97>>, <<255>>}

SeqsUpTo(S, n) == UNION {[1..k -> S] : k \in 0..n}

\* String::from_utf8_lossy: ASCII and two-byte sequences are decoded, any
\* other byte becomes U+FFFD.
RECURSIVE Lossy(_)
Lossy(bytes) ==
    IF bytes = <<>> THEN <<>>
    ELSE IF Head(bytes) < 128 THEN <<Head(bytes)>> \o Lossy(Tail(bytes))
    ELSE IF /\ Head(bytes) \in 194..223
            /\ Len(bytes) > 1
            /\ bytes[2] \in 128..191
         THEN <<(Head(bytes) - 192) * 64 + (bytes[2] - 128)>> \o Lossy(Tail(Tail(bytes)))
    ELSE <<65533>> \o Lossy(Tail(bytes))

\* next_line() fails with InvalidData on a line that is not UTF-8.
IsUtf8(line) == \A i \in 1..Len(Lossy(line)) : Lossy(line)[i] # 65533

\* cmd.output() spawns the child with both pipes open; a spawn failure is
\* answered 500.
ExecuteSpawn(out, err, code, ok) ==
    /\ exPc = "idle"
    /\ IF ok
       THEN /\ exPc' = "output"
            /\ chOut' = out
            /\ chErr' = err
            /\ chCode' = code
            /\ UNCHANGED response
       ELSE /\ exPc' = "done"
            /\ response' = <<"500">>
            /\ UNCHANGED <<chOut, chErr, chCode>>
    /\ UNCHANGED <<chExited, wroteErr, pipeOut, pipeErr, capOut, capErr, events>>
    /\ UNCHANGED mainVars

\* cmd.spawn() with both pipes taken over by the stream; a spawn failure is
\* answered 500 and no stream is made.
StreamSpawn(out, err, code, ok) ==
    /\ exPc = "idle"
    /\ IF ok
       THEN /\ exPc' = "loop"
            /\ chOut' = out
            /\ chErr' = err
            /\ chCode' = code
            /\ UNCHANGED response
       ELSE /\ exPc' = "done"
            /\ response' = <<"500">>
            /\ UNCHANGED <<chOut, chErr, chCode>>
    /\ UNCHANGED <<chExited, wroteErr, pipeOut, pipeErr, capOut, capErr, events>>
    /\ UNCHANGED mainVars

\* The child writes its next line to stdout.
ChildWriteOut ==
    /\ exPc \in {"output", "loop", "wait"}
    /\ ~chExited
    /\ chOut # <<>>
    /\ pipeOut' = Append(pipeOut, Head(chOut))
    /\ chOut' = Tail(chOut)
    /\ UNCHANGED <<exPc, chErr, chCode, chExited, wroteErr, pipeErr, capOut, capErr,
                   events, response>>
    /\ UNCHANGED mainVars

\* The child writes its next line to stderr.
ChildWriteErr ==
    /\ exPc \in {"output", "loop", "wait"}
    /\ ~chExited
    /\ chErr # <<>>
    /\ pipeErr' = Append(pipeErr, Head(chErr))
    /\ wroteErr' = wroteErr \o Head(chErr)
    /\ chErr' = Tail(chErr)
    /\ UNCHANGED <<exPc, chOut, chCode, chExited, pipeOut, capOut, capErr, events,
                   response>>
    /\ UNCHANGED mainVars

\* The child has written everything and exits, which closes its pipe ends.
ChildExit ==
    /\ exPc \in {"output", "loop", "wait"}
    /\ ~chExited
    /\ chOut = <<>>
    /\ chErr = <<>>
    /\ chExited' = TRUE
    /\ UNCHANGED <<exPc, chOut, chErr, chCode, wroteErr, pipeOut, pipeErr, capOut,
                   capErr, events, response>>
    /\ UNCHANGED mainVars

\* cmd.output(): both pipes are read to their end ...
OutputRead ==
    /\ exPc = "output"
    /\ \/ /\ pipeOut # <<>>
          /\ capOut' = capOut \o Head(pipeOut)
          /\ pipeOut' = Tail(pipeOut)
          /\ UNCHANGED <<capErr, pipeErr>>
       \/ /\ pipeErr # <<>>
          /\ capErr' = capErr \o Head(pipeErr)
          /\ pipeErr' = Tail(pipeErr)
          /\ UNCHANGED <<capOut, pipeOut>>
    /\ UNCHANGED <<exPc, chOut, chErr, chCode, chExited, wroteErr, events, response>>
    /\ UNCHANGED mainVars

\* CommandResponse with the error field taken from stdout.
ExecuteRespondFromStdout ==
    /\ exPc = "output"
    /\ chExited
    /\ pipeOut = <<>>
    /\ pipeErr = <<>>
    /\ response' = [success |-> chCode = 0,
                    output |-> Lossy(capOut),
                    error |-> IF Lossy(capOut) = <<>> THEN <<"None">>
                              ELSE <<"Some", Lossy(capOut)>>]
    /\ exPc' = "done"
    /\ UNCHANGED <<childVars, capOut, capErr, events>>
    /\ UNCHANGED mainVars

\* ... and the child is waited for; then the CommandResponse is built.
ExecuteRespond ==
    /\ exPc = "output"
    /\ chExited
    /\ pipeOut = <<>>
    /\ pipeErr = <<>>
    /\ response' = [success |-> chCode = 0,
                    output |-> Lossy(capOut),
                    error |-> IF Lossy(capErr) = <<>> THEN <<"None">>
                              ELSE <<"Some", Lossy(capErr)>>]
    /\ exPc' = "done"
    /\ UNCHANGED <<childVars, capOut, capErr, events>>
    /\ UNCHANGED mainVars

\* The select! arm of stdout_lines.next_line(): Ok(Some(line)) yields an
\* event, Err yields an error event and breaks, Ok(None) (the pipe is at its
\* end) does nothing and the loop goes round again.
StreamStdout ==
    /\ exPc = "loop"
    /\ IF pipeOut # <<>>
       THEN /\ pipeOut' = Tail(pipeOut)
            /\ IF IsUtf8(Head(pipeOut))
               THEN /\ events' = Append(events, <<"stdout", Lossy(Head(pipeOut))>>)
                    /\ UNCHANGED exPc
               ELSE /\ events' = Append(events, <<"error">>)
                    /\ exPc' = "wait"
       ELSE /\ chExited
            /\ UNCHANGED <<exPc, pipeOut, events>>
    /\ UNCHANGED <<chOut, chErr, chCode, chExited, wroteErr, pipeErr, capOut, capErr,
                   response>>
    /\ UNCHANGED mainVars

\* The select! arm of stderr_lines.next_line().
StreamStderr ==
    /\ exPc = "loop"
    /\ IF pipeErr # <<>>
       THEN /\ pipeErr' = Tail(pipeErr)
            /\ IF IsUtf8(Head(pipeErr))
               THEN /\ events' = Append(events, <<"stderr", Lossy(Head(pipeErr))>>)
                    /\ UNCHANGED exPc
               ELSE /\ events' = Append(events, <<"error">>)
                    /\ exPc' = "wait"
       ELSE /\ chExited
            /\ UNCHANGED <<exPc, pipeErr, events>>
    /\ UNCHANGED <<chOut, chErr, chCode, chExited, wroteErr, pipeOut, capOut, capErr,
                   response>>
    /\ UNCHANGED mainVars

\* child.wait().await after the loop: the exit_code event ends the stream.
StreamWait ==
    /\ exPc = "wait"
    /\ chExited
    /\ events' = Append(events, <<"exit_code", chCode>>)
    /\ exPc' = "done"
    /\ UNCHANGED <<childVars, capOut, capErr, response>>
    /\ UNCHANGED mainVars

Child ==
    \/ ChildWriteOut
    \/ ChildWriteErr
    \/ ChildExit

Execute ==
    \/ \E out, err \in SeqsUpTo(Lines, MaxLines), code \in ExitCodes, ok \in BOOLEAN :
          ExecuteSpawn(out, err, code, ok)
    \/ OutputRead
    \/ ExecuteRespond

Stream ==
    \/ StreamStdout
    \/ StreamStderr
    \/ StreamWait

ExecNext ==
    \/ Child
    \/ Execute
    \/ \E out, err \in SeqsUpTo(Lines, MaxLines), code \in ExitCodes, ok \in BOOLEAN :
          StreamSpawn(out, err, code, ok)
    \/ Stream

ExecSpec == Init /\ [][ExecNext]_vars

\* ---- properties ----

IsPrefix(a, b) == Len(a) <= Len(b) /\ SubSeq(b, 1, Len(a)) = a

RECURSIVE Flatten(_)
Flatten(chunks) ==
    IF chunks = <<>> THEN <<>> ELSE Head(chunks) \o Flatten(Tail(chunks))

\* The attach attempts that obtained the endpoints of session s.
Claimants(s) == {c \in Conns : sid[c] = s /\ rd[c] # "off"}

\* The messages of a sequence that precede its first Close message.
RECURSIVE BeforeClose(_)
BeforeClose(msgs) ==
    IF msgs = <<>> \/ Head(msgs).kind = "Close"
    THEN <<>>
    ELSE <<Head(msgs)>> \o BeforeClose(Tail(msgs))

\* The payload bytes of the Binary and Text messages of a sequence, in order.
RECURSIVE Payloads(_)
Payloads(msgs) ==
    IF msgs = <<>> THEN <<>>
    ELSE (CASE Head(msgs).kind = "Binary" -> Head(msgs).body
            [] Head(msgs).kind = "Text" -> IntoBytes(Head(msgs).body)
            [] OTHER -> <<>>) \o Payloads(Tail(msgs))

\* C1: whatever the interleaving of the attach attempts on a session, its reader
\* is cloned at most once, its writer is taken at most once, and at most one
\* attempt ever gets a bridge on it.
C1_SingleClaim ==
    \A s \in Ids :
        /\ readerClones[s] <= 1
        /\ writerTakes[s] <= 1
        /\ Cardinality(Claimants(s)) <= 1

\* Two attempts raced for one session: one relays, the other was turned away.
C1_Witness ==
    \E c, d \in Conns :
        /\ c # d
        /\ sid[c] = sid[d]
        /\ hpc[c] = "relay"
        /\ result[d] = "AlreadyClaimed"
        /\ readerClones[sid[c]] = 1

\* C2: an attempt on a session whose master_taken is set never waits for the
\* bridge that set it (the session lock it needs is free or held by an attempt
\* inside its own test, and the test itself can always run), ends as
\* AlreadyClaimed, and that step changes nothing but the attempt's own position
\* and result (and the session lock it releases).
C2_AlreadyClaimedIsInert ==
    [][\A c \in Conns :
          /\ (hpc[c] = "found" /\ master_taken[sid[c]] /\ sessLock[sid[c]] # 0)
             => hpc[sessLock[sid[c]]] = "claim"
          /\ (hpc[c] = "claim" /\ master_taken[sid[c]])
             => /\ ENABLED Claim(c)
                /\ hpc'[c] # hpc[c]
                   => /\ hpc'[c] = "done"
                      /\ result'[c] = "AlreadyClaimed"
                      /\ UNCHANGED <<regVars, master_taken, readerClones,
                                     writerTakes, sid, thrVars, chanVars, wsVars,
                                     ptyVars>>]_vars

\* A second attempt was turned away while the first bridge is still relaying
\* with all four of its units alive.
C2_Witness ==
    \E c, d \in Conns :
        /\ c # d
        /\ sid[c] = sid[d]
        /\ result[d] = "AlreadyClaimed"
        /\ hpc[c] = "relay"
        /\ rd[c] = "read" /\ wr[c] = "recv" /\ rt[c] = "recv" /\ wt[c] = "next"

\* C3: the bytes written to a session's PTY are, at every moment, a prefix of
\* the payloads (Binary as sent, Text as its UTF-8 bytes) of the messages its
\* one bridge received before the first Close, in arrival order; they are all
\* of them once the writer thread has ended without a failed write; and a
\* session without a bridge is written nothing, whatever other transports carry.
C3_InboundBytes ==
    \A s \in Ids :
        /\ Claimants(s) = {} => ptyIn[s] = <<>>
        /\ \A c \in Claimants(s) :
            /\ IsPrefix(ptyIn[s], Payloads(BeforeClose(wsRecv[c])))
            /\ (wr[c] = "done" /\ ~wrErr[c])
               => ptyIn[s] = Payloads(BeforeClose(wsRecv[c]))

\* A Text and a Binary message were relayed in order to one PTY, and the
\* writer thread has ended after the Close that followed them.
C3_Witness ==
    \E c \in Conns :
        /\ wr[c] = "done"
        /\ ~wrErr[c]
        /\ Len(wsRecv[c]) = 3
        /\ wsRecv[c][3].kind = "Close"
        /\ ptyIn[sid[c]] = <<195, 169, 1>>

\* C4: the Binary messages sent on a transport carry, at every moment, a prefix
\* of what was read from the PTY of the bridge's session, in the order read and
\* whatever the chunks were; they carry all of it once read_task has ended with
\* the transport still open; a connection without a bridge is sent nothing, and
\* nothing is read from a session without a bridge.
C4_OutboundBytes ==
    /\ \A c \in Conns :
        IF rd[c] = "off"
        THEN wsOut[c] = <<>>
        ELSE /\ IsPrefix(Flatten(wsOut[c]), ptyRead[sid[c]])
             /\ (rt[c] = "done" /\ TransportOpen(c))
                => Flatten(wsOut[c]) = ptyRead[sid[c]]
    /\ \A s \in Ids : Claimants(s) = {} => ptyRead[s] = <<>>

\* Two bytes of shell output went out as two Binary messages, in order.
C4_Witness ==
    \E c \in Conns :
        /\ Len(wsOut[c]) = 2
        /\ Flatten(wsOut[c]) = ptyRead[sid[c]]
        /\ Len(ptyRead[sid[c]]) = 2

\* All four units of the bridge of connection c have ended.
Unwound(c) == rd[c] = "done" /\ wr[c] = "done" /\ rt[c] = "done" /\ wt[c] = "done"

\* C5: once stop_session has removed a session whose bridge is relaying, both
\* relay directions end without any help from the client or the shell: a
\* stopped bridge whose units can take no step of their own has fully ended.
C5_StopEndsBridge ==
    \A s \in Ids : \A c \in stopSaw[s] : ~ENABLED Bridge(c) => Unwound(c)

\* C6: master_taken is never cleared once set, and an attempt that makes its
\* test after a bridge of the session has come and gone is turned away as
\* AlreadyClaimed without getting any endpoint.
C6_ClaimIsIrreversible ==
    [][/\ \A s \in Ids : master_taken[s] => master_taken'[s]
       /\ \A c \in Conns :
            (/\ hpc[c] = "claim"
             /\ hpc'[c] # hpc[c]
             /\ \E d \in Conns : sid[d] = sid[c] /\ result[d] = "Relayed")
            => /\ result'[c] = "AlreadyClaimed"
               /\ rd'[c] = "off"
               /\ readerClones'[sid[c]] = readerClones[sid[c]]
               /\ writerTakes'[sid[c]] = writerTakes[sid[c]]]_vars

\* The bridge of a session has ended and its handler has returned; a later
\* attempt on the same session, still registered, holds the session lock and is
\* about to make its test.
C6_Witness ==
    \E c, d \in Conns :
        /\ c # d
        /\ sid[c] = sid[d]
        /\ sid[c] \in SESSIONS
        /\ result[c] = "Relayed"
        /\ Unwound(c)
        /\ hpc[d] = "claim"

\* C7: the end of either relay loop brings the other one down: a bridge with
\* one of its two tasks ended and the other not can always take a step of its
\* own, whatever the client and the shell do or do not do.
C7_LoopsEndTogether ==
    \A c \in Conns :
        ((rt[c] = "done") # (wt[c] = "done")) => ENABLED Bridge(c)

\* C8: when handle_shell_socket has returned from a bridge, the two PTY threads
\* and the two tasks have all ended and both channels are empty and closed.
C8_ReturnedMeansUnwound ==
    \A c \in Conns :
        result[c] = "Relayed" => (Unwound(c) /\ pty_q[c] = <<>> /\ ws_q[c] = <<>>)

\* C9: once stop_session has removed a session, its shell is no longer running
\* and no descriptor of its PTY is open, with or without a bridge.
C9_RemoveReleases ==
    \A s \in Ids :
        removed[s]
        => /\ ~ShellRunning(s)
           /\ ~PairOpen(s)
           /\ \A c \in Conns : sid[c] = s => (~ReaderOpen(c) /\ ~WriterOpen(c))

\* C10: a lookup of an id that was never inserted, or that stop_session has
\* removed, ends the attach as NotFound and changes nothing else: no claim, no
\* endpoint, no relay unit, no channel, no change of the registry.
C10_UnknownIdIsNotFound ==
    [][\A c \in Conns :
          (/\ hpc[c] = "lookup"
           /\ hpc'[c] # hpc[c]
           /\ (createPc[sid[c]] # "done" \/ removed[sid[c]]))
          => /\ hpc'[c] = "done"
             /\ result'[c] = "NotFound"
             /\ UNCHANGED <<createPc, SESSIONS, removed, sessVars, sid, thrVars,
                            chanVars, wsVars, ptyVars>>]_vars

\* One attach ended NotFound on a removed session, another on an id that no
\* create_session call ever produced.
C10_Witness ==
    \E c, d \in Conns :
        /\ result[c] = "NotFound" /\ removed[sid[c]]
        /\ result[d] = "NotFound" /\ createPc[sid[d]] = "none"

\* C11: a stop_session call answers "stopped" exactly when its id is in the
\* registry at the removal, and then removes that entry and no other; any other
\* call answers 404 and leaves the registry as it was.  So the registry is at
\* every moment the ids inserted and not yet answered "stopped", no id is ever
\* answered "stopped" twice, and of the calls for an id that was registered
\* exactly one is answered "stopped", the others 404.
C11_StopOnce ==
    /\ SESSIONS = {s \in Ids : createPc[s] = "done" /\ stopOK[s] = 0}
    /\ \A s \in Ids :
        /\ stopOK[s] <= 1
        /\ stopOK[s] = 1 => createPc[s] = "done"
        /\ stopAgain[s] => stopOK[s] = 1
        /\ regLock = <<"stop", s>> => ENABLED StopRemove(s)

\* Two sessions are registered; one of them got two stop_session calls, the
\* first answered "stopped", the second 404, and the other is still registered.
C11_Witness ==
    \E s, u \in Ids :
        /\ s # u
        /\ stopOK[s] = 1
        /\ stopAgain[s]
        /\ u \in SESSIONS
        /\ createPc[s] = "done"

\* C12: the event sequence of execute/stream always comes to its end: once the
\* child has exited, with both its pipes closed, a stream that has not ended can
\* still make progress (take a step that changes something), and a stream that
\* has ended has the exit_code event, carrying the child's exit code, as its
\* last event.
C12_StreamEndsWithExitCode ==
    /\ (exPc \in {"loop", "wait"} /\ chExited)
       => ENABLED (Stream /\ execVars' # execVars)
    /\ (exPc = "done" /\ events # <<>>)
       => events[Len(events)] = <<"exit_code", chCode>>

\* execute has answered with a CommandResponse.
Responded == exPc = "done" /\ response \notin {<<>>, <<"500">>}

\* C13 (as stated): execute of a command that exits with a nonzero code answers
\* success = false and an error field that is present, non-empty and made from
\* what the command wrote to stderr, whatever the command wrote.
C13_FailureHasError ==
    (Responded /\ chCode # 0)
    => /\ response.success = FALSE
       /\ response.error = <<"Some", Lossy(wroteErr)>>
       /\ Lossy(wroteErr) # <<>>

\* C13 (amended): execute of a command that exits with a nonzero code answers
\* success = false; its error field is the lossy decoding of what the command
\* wrote to stderr, non-empty, when it wrote something there, and is absent
\* when it wrote nothing.
C13_FailureErrorFromStderr ==
    (Responded /\ chCode # 0)
    => /\ response.success = FALSE
       /\ wroteErr # <<>>
          => (response.error = <<"Some", Lossy(wroteErr)>> /\ Lossy(wroteErr) # <<>>)
       /\ wroteErr = <<>> => response.error = <<"None">>

\* A failing command that wrote "a" to stdout and a non-UTF-8 byte to stderr
\* has been answered.
C13_Witness ==
    /\ Responded
    /\ chCode # 0
    /\ response.output = <<97>>
    /\ response.error = <<"Some", <<65533>>>>

\* A unit of the bridge of connection c is inside a blocking call: a PTY read
\* or write, a send to or a receive from a channel, a send to or a receive
\* from the transport.
InBlockingIO(c) ==
    \/ rd[c] \in {"read", "send"}
    \/ wr[c] \in {"recv", "write"}
    \/ rt[c] \in {"recv", "send"}
    \/ wt[c] \in {"next", "send"}

\* The locks held on behalf of connection c.
HoldsLock(c) == regLock = <<"attach", c>> \/ \E s \in Ids : sessLock[s] = c

\* C14: no lock is held across a blocking call.  create_session holds the
\* registry lock only from its lock to its insert, when the PTY allocation and
\* the shell spawn have returned; a handler holds the registry lock only inside
\* its lookup and a session lock only inside its test of master_taken; and as
\* long as any unit of its bridge is inside a PTY, channel or transport call it
\* holds no lock at all.
C14_NoLockAcrossIO ==
    /\ \A s \in Ids :
        /\ regLock = <<"create", s>> => createPc[s] = "locked"
        /\ createPc[s] \in {"none", "opened"} => regLock # <<"create", s>>
    /\ \A c \in Conns :
        /\ regLock = <<"attach", c>> => hpc[c] = "lookup"
        /\ \A s \in Ids : sessLock[s] = c => (hpc[c] = "claim" /\ sid[c] = s)
        /\ InBlockingIO(c) => ~HoldsLock(c)

\* A bridge has all four units inside blocking calls while another attempt
\* holds the lock of the same session and a stop_session call holds the
\* registry lock.
C14_Witness ==
    \E c, d \in Conns :
        /\ rd[c] = "read" /\ wr[c] = "recv" /\ rt[c] = "recv" /\ wt[c] = "next"
        /\ sessLock[sid[c]] = d
        /\ regLock = <<"stop", sid[c]>>

\* C15: create_session fails only where openpty or spawn_command fails, with
\* the error of that call; the failing step changes nothing but the position of
\* that one call (no entry is inserted, no other session, lock, bridge or
\* connection is touched), and the id of a failed call is never in the
\* registry afterwards nor found by any attach.
C15_FailedCreateIsAtomic ==
    [][\A s \in Ids :
          /\ (createPc'[s] \in {"failed_pty", "failed_spawn"} /\ createPc'[s] # createPc[s])
             => /\ createPc[s] = "none" => createPc'[s] = "failed_pty"
                /\ createPc[s] = "opened" => createPc'[s] = "failed_spawn"
                /\ createPc[s] \in {"none", "opened"}
                /\ \A u \in Ids \ {s} : createPc'[u] = createPc[u]
                /\ UNCHANGED <<SESSIONS, regLock, removed, stopSaw, stopHist, sessVars,
                               hVars, thrVars, chanVars, wsVars, ptyVars>>
          /\ createPc[s] \in {"failed_pty", "failed_spawn"}
             => /\ createPc'[s] = createPc[s]
                /\ s \notin SESSIONS'
                /\ \A c \in Conns : sid'[c] = s => hpc'[c] \notin {"found", "claim", "relay"}
                /\ ~PairOpen(s)' /\ ~ShellRunning(s)']_vars

\* The first create_session call failed at the spawn of its shell while the
\* second registered its session, which has a relaying bridge, and an attach
\* on the failed id ended NotFound.
C15_Witness ==
    \E s, u \in Ids : \E c, d \in Conns :
        /\ createPc[s] = "failed_spawn"
        /\ u \in SESSIONS
        /\ sid[c] = u /\ hpc[c] = "relay"
        /\ sid[d] = s /\ result[d] = "NotFound"

\* C16: a client started with --session only attaches (Attach creates no
\* session), and its attach gets a relaying bridge whenever the session is in
\* the registry, its shell is running, and every earlier connection to it has
\* been dropped by its client and has had its handler return.
C16_ReconnectRelays ==
    [][\A c \in Conns :
          (/\ hpc[c] = "claim"
           /\ hpc'[c] # hpc[c]
           /\ sid[c] \in SESSIONS
           /\ ShellRunning(sid[c])
           /\ \A d \in Conns \ {c} :
                sid[d] = sid[c] => (clientGone[d] /\ hpc[d] = "done"))
          => /\ hpc'[c] = "relay"
             /\ rd'[c] = "read"
             /\ wt'[c] = "next"]_vars

\* C17: an attach that makes its test of master_taken after stop_session has
\* removed the session gets no endpoint and no bridge.
C17_NoClaimAfterRemoval ==
    [][\A c \in Conns :
          (hpc[c] = "claim" /\ hpc'[c] # hpc[c] /\ removed[sid[c]])
          => /\ hpc'[c] = "done"
             /\ rd'[c] = "off"
             /\ readerClones'[sid[c]] = readerClones[sid[c]]
             /\ writerTakes'[sid[c]] = writerTakes[sid[c]]]_vars

\* C18: the set of registered ids changes only in two ways: the insert of a
\* create_session call adds the one id of that call, which was never registered
\* before, and a stop_session call answered "stopped" removes the one id it was
\* called with.  No step of an attach, of a bridge, of a client or of a shell
\* changes it, so the session of a bridge that has ended stays registered until
\* it is stopped.
C18_RegistryFrame ==
    [][/\ SESSIONS' # SESSIONS
          => \/ \E s \in Ids \ SESSIONS :
                  /\ SESSIONS' = SESSIONS \cup {s}
                  /\ regLock = <<"create", s>>
                  /\ createPc[s] = "locked" /\ createPc'[s] = "done"
                  /\ ~removed[s]
             \/ \E s \in SESSIONS :
                  /\ SESSIONS' = SESSIONS \ {s}
                  /\ regLock = <<"stop", s>>
                  /\ stopOK'[s] = stopOK[s] + 1
       /\ \A c \in Conns :
            (result'[c] = "Relayed" /\ ~removed'[sid'[c]]) => sid'[c] \in SESSIONS']_vars

\* The bridge of a session has ended and its handler has returned, a second
\* attempt on it was turned away, and the session is still registered.
C18_Witness ==
    \E c, d \in Conns :
        /\ result[c] = "Relayed"
        /\ Unwound(c)
        /\ sid[d] = sid[c]
        /\ result[d] = "AlreadyClaimed"
        /\ sid[c] \in SESSIONS

\* C19: nothing is tried again inside a bridge.  Once a read of the PTY has
\* returned end-of-stream or an error the reader thread has ended and no read
\* of that PTY is possible any more; once a write to the PTY has failed the
\* writer thread has ended and no write is possible; once a send on the
\* transport has failed read_task has ended and no send is possible.
C19_NoRetry ==
    \A c \in Conns :
        /\ rdEof[c]
           => /\ rd[c] = "done"
              /\ ~ENABLED PtyReadData(c)
              /\ ~ENABLED PtyReadEof(c)
        /\ wrErr[c]
           => /\ wr[c] = "done"
              /\ ~ENABLED PtyWrite(c)
              /\ ~ENABLED PtyWriteErr(c)
        /\ sendErr[c]
           => /\ rt[c] = "done"
              /\ ~ENABLED RtSend(c)

\* One byte of shell output was read, its send on the transport failed, and
\* later the read of the PTY found its end.
C19_Witness ==
    \E c \in Conns :
        /\ sendErr[c]
        /\ rdEof[c]
        /\ Len(ptyRead[sid[c]]) = 1

RegistryRelease ==
    \/ \E s \in Ids : regLock = <<"create", s>> /\ CreateInsert(s)
    \/ regLock = <<"list", 0>> /\ ListRead
    \/ \E s \in Ids : regLock = <<"stop", s>> /\ StopRemove(s)
    \/ \E c \in Conns : regLock = <<"attach", c>> /\ Lookup(c)

\* C21: no unit holds the registry lock and a session lock at once: a handler
\* that holds a session lock does not hold the registry lock, and the holder
\* of a session lock is always a handler (create, list and stop take none).
\* So the locks cannot deadlock: whoever holds the registry lock can give it
\* back at once, whoever holds a session lock can give it back at once, and
\* neither of them is waiting for a lock.
C21_NoNestedLocks ==
    /\ \A c \in Conns :
        ~(regLock = <<"attach", c>> /\ \E s \in Ids : sessLock[s] = c)
    /\ \A s \in Ids : sessLock[s] \in Conns \cup {0}
    /\ regLock # Free => ENABLED RegistryRelease
    /\ \A s \in Ids : sessLock[s] # 0 => ENABLED Claim(sessLock[s])

\* One handler is inside its test of master_taken, holding the session lock,
\* while another handler for the same session is inside its lookup, holding
\* the registry lock.
C21_Witness ==
    \E c, d \in Conns :
        /\ c # d
        /\ hpc[c] = "claim"
        /\ sid[c] = sid[d]
        /\ sessLock[sid[c]] = c
        /\ regLock = <<"attach", d>>

\* C22: what is queued when a producer ends is still delivered.  Inbound, as
\* long as no write to the PTY has failed: once write_task has ended, all it
\* received before the Close is what was written, then the chunk the writer
\* thread holds, then the queued chunks; the writer thread can go on without
\* anybody's help, and when it has ended the queue is empty and all of it was
\* written, in order.  Outbound, as long as no send on the transport has
\* failed: once the reader thread has met the end of the PTY, all it read is
\* what was sent, then the chunk read_task holds, then the queued chunks;
\* read_task can go on without anybody's help, and when it has ended the queue
\* is empty and all of it was sent, in order.
C22_DrainedBeforeStop ==
    \A c \in Conns :
        /\ (wt[c] = "done" /\ ~wrErr[c])
           => /\ Payloads(BeforeClose(wsRecv[c])) =
                    ptyIn[sid[c]] \o wrBuf[c] \o Flatten(ws_q[c])
              /\ wr[c] \in {"recv", "write"} => ENABLED (WrRecv(c) \/ PtyWrite(c))
              /\ wr[c] = "done"
                 => (ws_q[c] = <<>> /\ wrBuf[c] = <<>>
                     /\ ptyIn[sid[c]] = Payloads(BeforeClose(wsRecv[c])))
        /\ (rdEof[c] /\ ~sendErr[c])
           => /\ ptyRead[sid[c]] = Flatten(wsOut[c]) \o rtBuf[c] \o Flatten(pty_q[c])
              /\ rt[c] \in {"recv", "send"} => ENABLED (RtRecv(c) \/ RtSend(c))
              /\ rt[c] = "done"
                 => (pty_q[c] = <<>> /\ rtBuf[c] = <<>>
                     /\ Flatten(wsOut[c]) = ptyRead[sid[c]])

\* write_task has ended on the client's Close while a chunk it had queued is
\* still in the channel, and the writer thread, which has written nothing yet,
\* is alive.
C22_Witness ==
    \E c \in Conns :
        /\ wt[c] = "done"
        /\ ~clientGone[c]
        /\ ws_q[c] # <<>>
        /\ wr[c] = "recv"
        /\ ptyIn[sid[c]] = <<>>
        /\ ~wrErr[c]

====
